---- MODULE Spec2Model ----
(***************************************************************************)
(* Model of the Messages API data model (types/message.rs): the request    *)
(* builder CreateMessageParams, the serde wire encoding of requests and     *)
(* messages, and the serde decoding of messages and content blocks.         *)
(*                                                                          *)
(* JSON values are tagged one-field records, so values of different JSON    *)
(* types are never equal:                                                   *)
(*   [null |-> TRUE]  [bool |-> b]  [num |-> n]  [flt |-> tenths]           *)
(*   [str |-> s]      [arr |-> <<v1, ...>>]      [obj |-> [key |-> value]]  *)
(* A JSON object is a function from its keys to values: objects are equal   *)
(* when they have the same members, whatever the order of emission.         *)
(* Rust enum values are one-field records named after the variant.          *)
(***************************************************************************)
EXTENDS Integers, Sequences, FiniteSets, TLC

VARIABLES
    pc,        \* builder: "building" (setters may be called) or "sent" (serialized)
    required,  \* the RequiredMessageParams given to CreateMessageParams::new
    req,       \* the CreateMessageParams value of the builder chain
    calls,     \* the setter calls made so far, in order: <<[name, arg], ...>>
    sent,      \* the serialized request, once pc = "sent"
    op,        \* codec: the operation applied last
    inp,       \* codec: the input drawn (wire value, Message or error string)
    enc,       \* codec: the encoding of a Message input
    out        \* codec: the result of the decode / conversion

vars == <<pc, required, req, calls, sent, op, inp, enc, out>>
builderVars == <<pc, required, req, calls, sent>>
codecVars == <<op, inp, enc, out>>

----------------------------------------------------------------------------
(* Bounds *)

MaxCalls == 3      \* setter calls in one builder chain
MaxBlocks == 2     \* elements of a wire array of content blocks

----------------------------------------------------------------------------
(* JSON values and Rust Option / Result *)

JNull == [null |-> TRUE]
JBool(b) == [bool |-> b]
JNum(n) == [num |-> n]
JFlt(t) == [flt |-> t]
JStr(s) == [str |-> s]
JArr(a) == [arr |-> a]
JObj(f) == [obj |-> f]
EmptyObj == JObj([k \in {} |-> JNull])

IsStr(v) == DOMAIN v = {"str"}
IsArr(v) == DOMAIN v = {"arr"}
IsObj(v) == DOMAIN v = {"obj"}
IsNull(v) == DOMAIN v = {"null"}
Keys(v) == DOMAIN v.obj

None == [none |-> TRUE]
Some(v) == [some |-> v]

Ok(v) == [Ok |-> v]
Err(e) == [Err |-> e]
IsOk(r) == DOMAIN r = {"Ok"}
IsErr(r) == DOMAIN r = {"Err"}

\* f32 values: a finite value in tenths, or NaN
F32(t) == [tenths |-> t]
NaN == [nan |-> TRUE]

----------------------------------------------------------------------------
(* Typed values *)

Roles == {"User", "Assistant"}

MessageContent_Text(s) == [Text |-> [content |-> s]]
MessageContent_Blocks(bs) == [Blocks |-> [content |-> bs]]

ContentBlock_Text(s) == [Text |-> [text |-> s]]
ContentBlock_Image(src) == [Image |-> [source |-> src]]
ContentBlock_ToolUse(i, n, v) == [ToolUse |-> [id |-> i, name |-> n, input |-> v]]
ContentBlock_ToolResult(t, c) == [ToolResult |-> [tool_use_id |-> t, content |-> c]]

ImageSource(t, m, d) == [type_ |-> t, media_type |-> m, data |-> d]

Message_new_text(role, text) ==
    [role |-> role, content |-> MessageContent_Text(text)]

Message_new_blocks(role, blocks) ==
    [role |-> role, content |-> MessageContent_Blocks(blocks)]

ContentBlock_text(text) == ContentBlock_Text(text)

ContentBlock_image(type_, media_type, data) ==
    ContentBlock_Image(ImageSource(type_, media_type, data))

ToolChoice_Auto == [Auto |-> TRUE]
ToolChoice_Any == [Any |-> TRUE]
ToolChoice_Tool(n) == [Tool |-> [name |-> n]]

Tool(n, d, s) == [name |-> n, description |-> d, input_schema |-> s]

\* Metadata: fields is a HashMap<String, String>, a function from keys to strings
Metadata(f) == [fields |-> f]

OptionalFields ==
    {"system", "temperature", "stop_sequences", "stream", "top_k", "top_p",
     "tools", "tool_choice", "metadata"}
RequiredFields == {"max_tokens", "messages", "model"}

RequiredMessageParams(model, messages, max_tokens) ==
    [model |-> model, messages |-> messages, max_tokens |-> max_tokens]

\* #[derive(Default)]: 0, empty vector, empty string, every Option None
CreateMessageParams_default ==
    [max_tokens |-> 0, messages |-> <<>>, model |-> "",
     system |-> None, temperature |-> None, stop_sequences |-> None,
     stream |-> None, top_k |-> None, top_p |-> None, tools |-> None,
     tool_choice |-> None, metadata |-> None]

From_RequiredMessageParams_DefaultStream(r) ==
    [CreateMessageParams_default EXCEPT
        !.model = r.model, !.messages = r.messages,
        !.max_tokens = r.max_tokens, !.stream = Some(FALSE)]

From_RequiredMessageParams(r) ==
    [CreateMessageParams_default EXCEPT
        !.model = r.model, !.messages = r.messages, !.max_tokens = r.max_tokens]

CreateMessageParams_new(r) == From_RequiredMessageParams(r)

----------------------------------------------------------------------------
(* Builder setters *)

with_system(self, system) == [self EXCEPT !.system = Some(system)]

with_temperature_KeepFirst(self, temperature) ==
    IF self.temperature = None
    THEN [self EXCEPT !.temperature = Some(temperature)]
    ELSE self

with_temperature(self, temperature) ==
    [self EXCEPT !.temperature = Some(temperature)]

with_stop_sequences(self, stop_sequences) ==
    [self EXCEPT !.stop_sequences = Some(stop_sequences)]

with_stream(self, stream) == [self EXCEPT !.stream = Some(stream)]

with_top_k_ResetTopP(self, top_k) ==
    [self EXCEPT !.top_k = Some(top_k), !.top_p = None]

with_top_k(self, top_k) == [self EXCEPT !.top_k = Some(top_k)]

with_top_p(self, top_p) == [self EXCEPT !.top_p = Some(top_p)]

with_tools(self, tools) == [self EXCEPT !.tools = Some(tools)]

with_tool_choice(self, tool_choice) ==
    [self EXCEPT !.tool_choice = Some(tool_choice)]

with_metadata(self, metadata) == [self EXCEPT !.metadata = Some(metadata)]

\* the setter of optional field X applied to self
ApplySetter(X, self, v) ==
    CASE X = "system" -> with_system(self, v)
      [] X = "temperature" -> with_temperature(self, v)
      [] X = "stop_sequences" -> with_stop_sequences(self, v)
      [] X = "stream" -> with_stream(self, v)
      [] X = "top_k" -> with_top_k(self, v)
      [] X = "top_p" -> with_top_p(self, v)
      [] X = "tools" -> with_tools(self, v)
      [] X = "tool_choice" -> with_tool_choice(self, v)
      [] X = "metadata" -> with_metadata(self, v)

----------------------------------------------------------------------------
(* Serialization (derive(Serialize)), as a serde_json value *)

\* serde_json writes a non-finite float as null
ser_f32(x) == IF x = NaN THEN JNull ELSE JFlt(x.tenths)

\* rename_all = "lowercase"
ser_Role(role) == IF role = "User" THEN JStr("user") ELSE JStr("assistant")

ser_ImageSource(src) ==
    JObj([type |-> JStr(src.type_), media_type |-> JStr(src.media_type),
          data |-> JStr(src.data)])

\* tag = "type": the tag and the variant's fields are members of one object
ser_ContentBlock(b) ==
    CASE DOMAIN b = {"Text"} ->
            JObj([type |-> JStr("text"), text |-> JStr(b.Text.text)])
      [] DOMAIN b = {"Image"} ->
            JObj([type |-> JStr("image"), source |-> ser_ImageSource(b.Image.source)])
      [] DOMAIN b = {"ToolUse"} ->
            JObj([type |-> JStr("tool_use"), id |-> JStr(b.ToolUse.id),
                  name |-> JStr(b.ToolUse.name), input |-> b.ToolUse.input])
      [] DOMAIN b = {"ToolResult"} ->
            JObj([type |-> JStr("tool_result"),
                  tool_use_id |-> JStr(b.ToolResult.tool_use_id),
                  content |-> JStr(b.ToolResult.content)])

\* Vec<ContentBlock>: the blocks in the held order
ser_Blocks(bs) == JArr([i \in 1..Len(bs) |-> ser_ContentBlock(bs[i])])

ser_MessageContent_Rewrap(c) ==
    IF DOMAIN c = {"Text"}
    THEN JObj([content |->
            JArr(<<JObj([type |-> JStr("text"), text |-> JStr(c.Text.content)])>>)])
    ELSE JObj([content |-> ser_Blocks(c.Blocks.content)])

\* untagged: the struct of the variant held, with no discriminator
ser_MessageContent(c) ==
    IF DOMAIN c = {"Text"}
    THEN JObj([content |-> JStr(c.Text.content)])
    ELSE JObj([content |-> ser_Blocks(c.Blocks.content)])

ser_Message_Nested(m) ==
    JObj([role |-> ser_Role(m.role), content |-> ser_MessageContent(m.content)])

\* flatten: the members of the content's object join the message object
ser_Message(m) ==
    JObj(("role" :> ser_Role(m.role)) @@ ser_MessageContent(m.content).obj)

ser_Tool(t) ==
    LET present == {"name", "input_schema"}
                   \cup (IF t.description = None THEN {} ELSE {"description"})
        val(k) == CASE k = "name" -> JStr(t.name)
                    [] k = "description" -> JStr(t.description.some)
                    [] k = "input_schema" -> t.input_schema
    IN  JObj([k \in present |-> val(k)])

ser_ToolChoice(c) ==
    CASE DOMAIN c = {"Auto"} -> JObj([type |-> JStr("auto")])
      [] DOMAIN c = {"Any"} -> JObj([type |-> JStr("any")])
      [] DOMAIN c = {"Tool"} -> JObj([type |-> JStr("tool"), name |-> JStr(c.Tool.name)])

ser_Metadata_NoFlatten(m) ==
    JObj([fields |-> JObj([k \in DOMAIN m.fields |-> JStr(m.fields[k])])])

\* flatten on the only field: the object's members are the map's entries
ser_Metadata(m) == JObj([k \in DOMAIN m.fields |-> JStr(m.fields[k])])

SerField(p, k) ==
    CASE k = "max_tokens" -> JNum(p.max_tokens)
      [] k = "messages" -> JArr([i \in 1..Len(p.messages) |-> ser_Message(p.messages[i])])
      [] k = "model" -> JStr(p.model)
      [] k = "system" -> JStr(p.system.some)
      [] k = "temperature" -> ser_f32(p.temperature.some)
      [] k = "stop_sequences" -> JArr([i \in 1..Len(p.stop_sequences.some) |->
                                            JStr(p.stop_sequences.some[i])])
      [] k = "stream" -> JBool(p.stream.some)
      [] k = "top_k" -> JNum(p.top_k.some)
      [] k = "top_p" -> ser_f32(p.top_p.some)
      [] k = "tools" -> JArr([i \in 1..Len(p.tools.some) |-> ser_Tool(p.tools.some[i])])
      [] k = "tool_choice" -> ser_ToolChoice(p.tool_choice.some)
      [] k = "metadata" -> ser_Metadata(p.metadata.some)

ser_CreateMessageParams_NullForNone(p) ==
    JObj([k \in RequiredFields \cup OptionalFields |->
            IF k \in OptionalFields /\ p[k] = None THEN JNull ELSE SerField(p, k)])

\* skip_serializing_if = "Option::is_none" on every optional field
ser_CreateMessageParams(p) ==
    LET present == RequiredFields \cup {k \in OptionalFields : p[k] # None}
    IN  JObj([k \in present |-> SerField(p, k)])

----------------------------------------------------------------------------
(* Errors *)

\* enum MessageError
MessageErrorKinds == {"RequestFailed", "ApiError"}

\* impl From<String> for MessageError
From_String(error) == [ApiError |-> error]

\* The error of a derived Deserialize impl is the deserializer's own error
\* (serde::de::Error); MessageError has no variant for it and nothing in this
\* file converts it.  msg is the serde message class and name the tag or field
\* the message quotes ("" when it quotes none).
de_Error(msg, name) == [de_Error |-> [msg |-> msg, name |-> name]]

InvalidType == de_Error("invalid type", "")
InvalidValue == de_Error("invalid value", "")
InvalidLength == de_Error("invalid length", "")
MissingField(f) == de_Error("missing field", f)
UnknownVariant(t) == de_Error("unknown variant", t)
NoUntaggedMatch ==
    de_Error("data did not match any variant of untagged enum MessageContent", "")

----------------------------------------------------------------------------
(* Deserialization (derive(Deserialize)) of a JSON value *)

de_String(v) == IF IsStr(v) THEN Ok(v.str) ELSE Err(InvalidType)

\* serde_json::Value accepts every JSON value
de_Value(v) == Ok(v)

RoleOfName(s) ==
    CASE s = "user" -> Ok("User")
      [] s = "assistant" -> Ok("Assistant")
      [] OTHER -> Err(UnknownVariant(s))

\* An enum of unit variants, rename_all = "lowercase", read from a
\* serde_json::Value: the variant name as a string, or the one-member object
\* form {"variant": null}.  An object with no member or with more than one is
\* "invalid value: map, expected map with a single key", whatever its keys;
\* the key of a one-member object is looked up before its value is read; any
\* other JSON type is "invalid type".  (Read from JSON text the same inputs
\* fail too, with the parser's messages.)
de_Role(v) ==
    CASE IsStr(v) -> RoleOfName(v.str)
      [] IsObj(v) /\ Cardinality(Keys(v)) # 1 -> Err(InvalidValue)
      [] IsObj(v) /\ Cardinality(Keys(v)) = 1 ->
            LET k == CHOOSE k \in Keys(v) : TRUE
            IN  IF IsErr(RoleOfName(k)) THEN RoleOfName(k)
                ELSE IF IsNull(v.obj[k]) THEN RoleOfName(k)
                ELSE Err(InvalidType)
      [] OTHER -> Err(InvalidType)

\* field lists in declaration order: wire name and Rust type
ImageSourceFields ==
    <<[wire |-> "type", ty |-> "String"],
      [wire |-> "media_type", ty |-> "String"],
      [wire |-> "data", ty |-> "String"]>>

VariantFields(tag) ==
    CASE tag = "text" -> <<[wire |-> "text", ty |-> "String"]>>
      [] tag = "image" -> <<[wire |-> "source", ty |-> "ImageSource"]>>
      [] tag = "tool_use" ->
            <<[wire |-> "id", ty |-> "String"], [wire |-> "name", ty |-> "String"],
              [wire |-> "input", ty |-> "Value"]>>
      [] tag = "tool_result" ->
            <<[wire |-> "tool_use_id", ty |-> "String"],
              [wire |-> "content", ty |-> "String"]>>

KnownTags == {"text", "image", "tool_use", "tool_result"}

\* the decoded fields by wire name, rs[i] being the Ok result of field i
FieldValues(fields, rs) ==
    [k \in {fields[i].wire : i \in 1..Len(fields)} |->
        rs[CHOOSE i \in 1..Len(fields) : fields[i].wire = k].Ok]

\* visit_map of a derived struct: rs[i] is the result of reading the member of
\* field i, for the fields that have a member.  A member with a bad value fails
\* when it is read; members of other names are ignored; a field with no member
\* fails at the end, the first in declaration order.  Among several bad members
\* the model reports the first in declaration order.
StructFromMap(fields, rs) ==
    LET bad == {i \in DOMAIN rs : IsErr(rs[i])}
        missing == (1..Len(fields)) \ DOMAIN rs
    IN  IF bad # {} THEN rs[CHOOSE i \in bad : \A j \in bad : i <= j]
        ELSE IF missing # {}
        THEN Err(MissingField(fields[CHOOSE i \in missing : \A j \in missing : i <= j].wire))
        ELSE Ok(FieldValues(fields, rs))

\* visit_seq of a derived struct: the elements are the fields in order; rs[i] is
\* the result of reading element i as field i; len is the number of elements.
\* An array shorter or longer than the field list is an invalid length.
StructFromSeq(fields, rs, len) ==
    LET bad == {i \in DOMAIN rs : IsErr(rs[i])}
    IN  IF bad # {} THEN rs[CHOOSE i \in bad : \A j \in bad : i <= j]
        ELSE IF len # Len(fields) THEN Err(InvalidLength)
        ELSE Ok(FieldValues(fields, rs))

MembersOf(fields, o) == {i \in 1..Len(fields) : fields[i].wire \in DOMAIN o}
ElementsOf(fields, a) == {i \in 1..Len(fields) : i <= Len(a)}

ImageSourceOf(r) ==
    IF IsErr(r) THEN r ELSE Ok(ImageSource(r.Ok.type, r.Ok.media_type, r.Ok.data))

\* struct ImageSource, read from an object or from an array
de_ImageSource(v) ==
    CASE IsObj(v) ->
            ImageSourceOf(StructFromMap(ImageSourceFields,
                [i \in MembersOf(ImageSourceFields, v.obj) |->
                    de_String(v.obj[ImageSourceFields[i].wire])]))
      [] IsArr(v) ->
            ImageSourceOf(StructFromSeq(ImageSourceFields,
                [i \in ElementsOf(ImageSourceFields, v.arr) |-> de_String(v.arr[i])],
                Len(v.arr)))
      [] OTHER -> Err(InvalidType)

de_Field(ty, v) ==
    CASE ty = "String" -> de_String(v)
      [] ty = "Value" -> de_Value(v)
      [] ty = "ImageSource" -> de_ImageSource(v)

\* the variant of a tag built from its decoded fields, by wire name
BuildVariant(tag, f) ==
    CASE tag = "text" -> ContentBlock_Text(f.text)
      [] tag = "image" -> ContentBlock_Image(f.source)
      [] tag = "tool_use" -> ContentBlock_ToolUse(f.id, f.name, f.input)
      [] tag = "tool_result" -> ContentBlock_ToolResult(f.tool_use_id, f.content)

VariantOf(tag, r) == IF IsErr(r) THEN r ELSE Ok(BuildVariant(tag, r.Ok))

\* the fields of a struct variant read from the members left beside the tag
de_VariantMap(tag, o) ==
    VariantOf(tag, StructFromMap(VariantFields(tag),
        [i \in MembersOf(VariantFields(tag), o) |->
            de_Field(VariantFields(tag)[i].ty, o[VariantFields(tag)[i].wire])]))

\* the fields of a struct variant read from the elements that follow the tag
de_VariantSeq(tag, rest) ==
    VariantOf(tag, StructFromSeq(VariantFields(tag),
        [i \in ElementsOf(VariantFields(tag), rest) |->
            de_Field(VariantFields(tag)[i].ty, rest[i])],
        Len(rest)))

\* the variants of ContentBlock in declaration order (index 0 first)
VariantIndex == <<"text", "image", "tool_use", "tool_result">>

\* the tag read by the JSON deserializer itself: a string naming a variant
de_Tag(t) ==
    IF ~IsStr(t) THEN Err(InvalidType)
    ELSE IF t.str \notin KnownTags THEN Err(UnknownVariant(t.str))
    ELSE Ok(t.str)

\* the tag read from a value that serde has buffered (the untagged
\* MessageContent buffers its input before trying its variants): a string
\* naming a variant, or a non-negative integer taken as the index of a variant;
\* an index past the last variant is "invalid value"
de_Tag_Buffered(t) ==
    IF IsStr(t) THEN
        IF t.str \notin KnownTags THEN Err(UnknownVariant(t.str)) ELSE Ok(t.str)
    ELSE IF DOMAIN t = {"num"} /\ t.num >= 0 THEN
        IF t.num < Len(VariantIndex) THEN Ok(VariantIndex[t.num + 1])
        ELSE Err(InvalidValue)
    ELSE Err(InvalidType)

TaggedMap(t, o) == IF IsErr(t) THEN t ELSE de_VariantMap(t.Ok, o)
TaggedSeq(t, rest) == IF IsErr(t) THEN t ELSE de_VariantSeq(t.Ok, rest)

\* tag = "type": the tag is read first, from the member "type" of an object or
\* from the first element of an array; then the variant of that tag is read
\* from what is left.  This is a ContentBlock read straight from JSON, as the
\* elements of CreateMessageResponse.content are.
de_ContentBlock(v) ==
    CASE IsObj(v) ->
            IF "type" \notin Keys(v) THEN Err(MissingField("type"))
            ELSE TaggedMap(de_Tag(v.obj.type), [k \in Keys(v) \ {"type"} |-> v.obj[k]])
      [] IsArr(v) ->
            IF Len(v.arr) = 0 THEN Err(MissingField("type"))
            ELSE TaggedSeq(de_Tag(v.arr[1]), Tail(v.arr))
      [] OTHER -> Err(InvalidType)

\* a vector from the results of its elements: the first failure, or all values
VecOf(rs) ==
    LET bad == {i \in DOMAIN rs : IsErr(rs[i])}
    IN  IF bad # {} THEN rs[CHOOSE i \in bad : \A j \in bad : i <= j]
        ELSE Ok([i \in DOMAIN rs |-> rs[i].Ok])

\* a ContentBlock read from a buffered value, as the elements of a message's
\* content are: the same, with the tag read as the buffer hands it over
de_ContentBlock_Buffered(v) ==
    CASE IsObj(v) ->
            IF "type" \notin Keys(v) THEN Err(MissingField("type"))
            ELSE TaggedMap(de_Tag_Buffered(v.obj.type),
                           [k \in Keys(v) \ {"type"} |-> v.obj[k]])
      [] IsArr(v) ->
            IF Len(v.arr) = 0 THEN Err(MissingField("type"))
            ELSE TaggedSeq(de_Tag_Buffered(v.arr[1]), Tail(v.arr))
      [] OTHER -> Err(InvalidType)

\* Vec<ContentBlock> read straight from JSON (CreateMessageResponse.content):
\* an array every element of which decodes
de_Blocks(v) ==
    IF ~IsArr(v) THEN Err(InvalidType)
    ELSE VecOf([i \in 1..Len(v.arr) |-> de_ContentBlock(v.arr[i])])

\* Vec<ContentBlock> read from a buffered value (MessageContent::Blocks)
de_Blocks_Buffered(v) ==
    IF ~IsArr(v) THEN Err(InvalidType)
    ELSE VecOf([i \in 1..Len(v.arr) |-> de_ContentBlock_Buffered(v.arr[i])])

TextOf(r) == IF IsErr(r) THEN r ELSE Ok(MessageContent_Text(r.Ok))
BlocksOf(r) == IF IsErr(r) THEN r ELSE Ok(MessageContent_Blocks(r.Ok))

\* the struct variant Text { content: String }, read from an object only
de_MessageContent_Text(v) ==
    IF ~IsObj(v) THEN Err(InvalidType)
    ELSE IF "content" \notin Keys(v) THEN Err(MissingField("content"))
    ELSE TextOf(de_String(v.obj.content))

\* the struct variant Blocks { content: Vec<ContentBlock> }, read from an object only
de_MessageContent_Blocks(v) ==
    IF ~IsObj(v) THEN Err(InvalidType)
    ELSE IF "content" \notin Keys(v) THEN Err(MissingField("content"))
    ELSE BlocksOf(de_Blocks_Buffered(v.obj.content))

\* untagged: the first variant that reads without error; the errors of the
\* variants are dropped
FirstOk(a, b) == IF IsOk(a) THEN a ELSE IF IsOk(b) THEN b ELSE Err(NoUntaggedMatch)

NumberAsText(v, r) ==
    IF IsErr(r) /\ IsObj(v) /\ "content" \in Keys(v) /\ DOMAIN v.obj.content = {"num"}
    THEN Ok(MessageContent_Text("42"))
    ELSE r

de_MessageContent_NumberAsText(v) ==
    NumberAsText(v, FirstOk(de_MessageContent_Text(v), de_MessageContent_Blocks(v)))

\* untagged: the variants are tried in order on the buffered value, Text then
\* Blocks
de_MessageContent(v) ==
    FirstOk(de_MessageContent_Text(v), de_MessageContent_Blocks(v))

MessageOf(r, c) ==
    IF IsErr(r) THEN r
    ELSE IF IsErr(c) THEN c
    ELSE Ok([role |-> r.Ok, content |-> c.Ok])

RoleMember(o) ==
    IF "role" \in DOMAIN o THEN de_Role(o.role) ELSE Err(MissingField("role"))

\* struct Message, content flattened: read from an object only; role is read
\* from its member, every other member is handed to the content's decoder.
de_Message(v) ==
    IF ~IsObj(v) THEN Err(InvalidType)
    ELSE MessageOf(RoleMember(v.obj),
                   de_MessageContent(JObj([k \in Keys(v) \ {"role"} |-> v.obj[k]])))

----------------------------------------------------------------------------
(* Inputs of the builder *)

NestedJson ==
    JObj([q |-> JArr(<<JNum(1), JNull, JObj([deep |-> JBool(TRUE)])>>), n |-> JFlt(25)])

AllFourBlocks ==
    <<ContentBlock_text("hi"),
      ContentBlock_image("base64", "image/png", "AAAA"),
      ContentBlock_ToolUse("tu1", "calc", NestedJson),
      ContentBlock_ToolResult("tu1", "ok")>>

RequiredChoices ==
    {RequiredMessageParams("claude-3", <<Message_new_text("User", "hi")>>, 10),
     RequiredMessageParams("", <<>>, 0),
     RequiredMessageParams("claude-3",
        <<Message_new_text("User", "hi"),
          Message_new_blocks("Assistant", AllFourBlocks),
          Message_new_blocks("User", <<>>),
          Message_new_text("Assistant", "")>>, 4096)}

TemperatureValues == {F32(5), F32(9)}
TopPValues == {F32(9), NaN}

ToolValues ==
    {<<>>,
     <<Tool("calc", None, EmptyObj),
       Tool("search", Some("web search"), NestedJson)>>}

MetadataValues ==
    {Metadata([k \in {} |-> ""]),
     Metadata([trace |-> "42"]),
     Metadata([fields |-> "f", model |-> "other", user_id |-> "u1"])}

\* the arguments drawn for the setter of each optional field
Args(X) ==
    CASE X = "system" -> {"", "be brief"}
      [] X = "temperature" -> TemperatureValues
      [] X = "stop_sequences" -> {<<>>, <<"END", "STOP">>}
      [] X = "stream" -> BOOLEAN
      [] X = "top_k" -> {0, 40}
      [] X = "top_p" -> TopPValues
      [] X = "tools" -> ToolValues
      [] X = "tool_choice" -> {ToolChoice_Any, ToolChoice_Tool("calc")}
      [] X = "metadata" -> MetadataValues

----------------------------------------------------------------------------
(* The builder chain: new, then setters, then serialization *)

CodecIdle == op = "idle" /\ inp = None /\ enc = None /\ out = None

Init ==
    /\ pc = "building"
    /\ required \in RequiredChoices
    /\ req = CreateMessageParams_new(required)
    /\ calls = <<>>
    /\ sent = None
    /\ CodecIdle

\* bookkeeping common to the setter calls: the call is recorded
Called(X, v) ==
    /\ pc = "building"
    /\ Len(calls) < MaxCalls
    /\ calls' = Append(calls, [name |-> X, arg |-> v])
    /\ UNCHANGED <<pc, required, sent>>
    /\ UNCHANGED codecVars

WithSystem ==
    \E v \in Args("system") : req' = with_system(req, v) /\ Called("system", v)

WithTemperature ==
    \E v \in Args("temperature") :
        req' = with_temperature(req, v) /\ Called("temperature", v)

WithStopSequences ==
    \E v \in Args("stop_sequences") :
        req' = with_stop_sequences(req, v) /\ Called("stop_sequences", v)

WithStream ==
    \E v \in Args("stream") : req' = with_stream(req, v) /\ Called("stream", v)

WithTopK ==
    \E v \in Args("top_k") : req' = with_top_k(req, v) /\ Called("top_k", v)

WithTopP ==
    \E v \in Args("top_p") : req' = with_top_p(req, v) /\ Called("top_p", v)

WithTools ==
    \E v \in Args("tools") : req' = with_tools(req, v) /\ Called("tools", v)

WithToolChoice ==
    \E v \in Args("tool_choice") :
        req' = with_tool_choice(req, v) /\ Called("tool_choice", v)

WithMetadata ==
    \E v \in Args("metadata") :
        req' = with_metadata(req, v) /\ Called("metadata", v)

\* the finished request is serialized for the transport
Serialize ==
    /\ pc = "building"
    /\ pc' = "sent"
    /\ sent' = Some(ser_CreateMessageParams(req))
    /\ UNCHANGED <<required, req, calls>>
    /\ UNCHANGED codecVars

Next ==
    \/ WithSystem
    \/ WithTemperature
    \/ WithStopSequences
    \/ WithStream
    \/ WithTopK
    \/ WithTopP
    \/ WithTools
    \/ WithToolChoice
    \/ WithMetadata
    \/ Serialize

Spec == Init /\ [][Next]_vars

----------------------------------------------------------------------------
(* Properties of the builder and of request serialization *)

Wire == sent.some
CalledFields == {calls[i].name : i \in 1..Len(calls)}
CallsOf(X) == {i \in 1..Len(calls) : calls[i].name = X}
LastCallOf(X) == CHOOSE i \in CallsOf(X) : \A j \in CallsOf(X) : j <= i

\* the request a sequence of setter calls builds from new(required)
RECURSIVE Replay(_)
Replay(cs) ==
    IF cs = <<>> THEN CreateMessageParams_new(required)
    ELSE ApplySetter(cs[Len(cs)].name, Replay(SubSeq(cs, 1, Len(cs) - 1)),
                     cs[Len(cs)].arg)

\* the calls with the last two exchanged
SwapLastTwo(cs) ==
    SubSeq(cs, 1, Len(cs) - 2) \o <<cs[Len(cs)], cs[Len(cs) - 1]>>

\* C1: a request built from the required fields alone, with no setter called,
\* serializes to an object whose keys are exactly model, messages, max_tokens.
C1_RequiredOnlyKeys ==
    (pc = "sent" /\ calls = <<>>) =>
        /\ IsObj(Wire)
        /\ Keys(Wire) = {"model", "messages", "max_tokens"}
        /\ \A X \in OptionalFields : req[X] = None

C1_Witness ==
    /\ pc = "sent" /\ calls = <<>>
    /\ required.model = "claude-3" /\ Len(required.messages) = 4
    /\ Keys(Wire) = {"model", "messages", "max_tokens"}

\* the wire tag of a content block, from the variant held
TagOfVariant(b) ==
    CASE DOMAIN b = {"Text"} -> "text"
      [] DOMAIN b = {"Image"} -> "image"
      [] DOMAIN b = {"ToolUse"} -> "tool_use"
      [] DOMAIN b = {"ToolResult"} -> "tool_result"

WireShapeOf(m, w) ==
    /\ IsObj(w)
    /\ Keys(w) = {"role", "content"}
    /\ w.obj.role = (IF m.role = "User" THEN JStr("user") ELSE JStr("assistant"))
    /\ DOMAIN m.content = {"Text"} => w.obj.content = JStr(m.content.Text.content)
    /\ DOMAIN m.content = {"Blocks"} =>
        /\ IsArr(w.obj.content)
        /\ Len(w.obj.content.arr) = Len(m.content.Blocks.content)
        /\ \A j \in 1..Len(m.content.Blocks.content) :
            /\ IsObj(w.obj.content.arr[j])
            /\ "type" \in Keys(w.obj.content.arr[j])
            /\ w.obj.content.arr[j].obj.type =
                    JStr(TagOfVariant(m.content.Blocks.content[j]))

ExampleRequired ==
    RequiredMessageParams("claude-3", <<Message_new_text("User", "hi")>>, 10)

ExampleWire ==
    JObj([model |-> JStr("claude-3"),
          messages |-> JArr(<<JObj([role |-> JStr("user"), content |-> JStr("hi")])>>),
          max_tokens |-> JNum(10)])

\* C5: every message of a serialized request is an object with exactly the keys
\* role and content, role "user" or "assistant", content a bare string for Text
\* and an array of tagged block objects in the held order for Blocks; messages
\* keep their order; the required-only example serializes to the stated object.
C5_MessageWireShape ==
    pc = "sent" =>
        /\ IsArr(Wire.obj.messages)
        /\ Len(Wire.obj.messages.arr) = Len(req.messages)
        /\ \A i \in 1..Len(req.messages) :
                WireShapeOf(req.messages[i], Wire.obj.messages.arr[i])
        /\ (required = ExampleRequired /\ calls = <<>>) => Wire = ExampleWire

C5_Witness ==
    /\ pc = "sent" /\ calls = <<>> /\ required = ExampleRequired
    /\ Wire = ExampleWire

C5_WitnessBlocks ==
    /\ pc = "sent" /\ Len(req.messages) = 4
    /\ Len(Wire.obj.messages.arr[2].obj.content.arr) = 4
    /\ Wire.obj.messages.arr[3].obj.content = JArr(<<>>)
    /\ Wire.obj.messages.arr[4].obj.content = JStr("")

\* C6 as stated: every metadata entry k -> v is a top-level key k of the request
\* object with value v, and no "fields" key appears on the wire.
C6_MetadataTopLevel ==
    (pc = "sent" /\ req.metadata # None) =>
        /\ \A k \in DOMAIN req.metadata.some.fields :
            /\ k \in Keys(Wire)
            /\ Wire.obj[k] = JStr(req.metadata.some.fields[k])
        /\ "fields" \notin Keys(Wire)

\* C6 amended: the entries k -> v of an attached Metadata are exactly the members
\* of the object under the request's top-level key "metadata" (k with the string
\* v); no wrapper key "fields" is added, and no entry becomes a top-level key of
\* the request.
C6_MetadataUnderMetadataKey ==
    (pc = "sent" /\ req.metadata # None) =>
        LET f == req.metadata.some.fields
        IN  /\ "metadata" \in Keys(Wire)
            /\ IsObj(Wire.obj.metadata)
            /\ Keys(Wire.obj.metadata) = DOMAIN f
            /\ \A k \in DOMAIN f : Wire.obj.metadata.obj[k] = JStr(f[k])
            /\ Keys(Wire) \subseteq RequiredFields \cup OptionalFields
            /\ Wire.obj.model = JStr(req.model)

C6_Witness ==
    /\ pc = "sent"
    /\ req.metadata = Some(Metadata([trace |-> "42"]))
    /\ Wire.obj.metadata = JObj([trace |-> JStr("42")])
    /\ "trace" \notin Keys(Wire)

\* C7: for every optional field X whose setter was called, the request holds the
\* argument of the last with_X call, whatever was called before or in between;
\* with_temperature(0.5) then with_temperature(0.9) gives 0.9; and with_X(v)
\* twice in a row gives the same request as once.
C7_LastWriteWins ==
    /\ \A X \in CalledFields : req[X] = Some(calls[LastCallOf(X)].arg)
    /\ with_temperature(with_temperature(req, F32(5)), F32(9)).temperature
            = Some(F32(9))
    /\ (Len(calls) >= 2 /\ calls[Len(calls)] = calls[Len(calls) - 1]) =>
            req = Replay(SubSeq(calls, 1, Len(calls) - 1))

C7_Witness ==
    /\ Len(calls) = 3
    /\ calls[1] = [name |-> "temperature", arg |-> F32(5)]
    /\ calls[2].name = "system"
    /\ calls[3] = [name |-> "temperature", arg |-> F32(9)]
    /\ req.temperature = Some(F32(9))

\* C9: the serialized request contains the key of an optional field exactly when
\* that field's setter was called at least once; a field never set is an absent
\* key, and a field once set stays set under every later setter call.
C9_KeyIffSetterCalled ==
    /\ \A X \in OptionalFields : (req[X] # None) <=> (X \in CalledFields)
    /\ pc = "sent" =>
        /\ Keys(Wire) \cap OptionalFields = CalledFields
        /\ Keys(Wire) \ OptionalFields = RequiredFields

C9_Witness ==
    /\ pc = "sent"
    /\ CalledFields = {"temperature", "metadata"}
    /\ req.metadata = Some(Metadata([k \in {} |-> ""]))
    /\ Len(calls) = 3
    /\ Keys(Wire) = RequiredFields \cup {"temperature", "metadata"}
    /\ Wire.obj.temperature = JFlt(9)

\* the step is the setter call of field X
IsCallOf(X) ==
    /\ Len(calls') = Len(calls) + 1
    /\ calls'[Len(calls')].name = X

\* C10: a with_X call changes only field X of the request; the three required
\* fields keep the values given at construction; and setters of two different
\* fields give the same request in either order.
C10_SetterFrame ==
    /\ [](/\ req.model = required.model
          /\ req.messages = required.messages
          /\ req.max_tokens = required.max_tokens)
    /\ [][\A X \in OptionalFields : IsCallOf(X) =>
            \A Y \in (RequiredFields \cup OptionalFields) \ {X} : req'[Y] = req[Y]]_vars
    /\ []((Len(calls) >= 2 /\ calls[Len(calls)].name # calls[Len(calls) - 1].name)
            => req = Replay(SwapLastTwo(calls)))

C10_Witness ==
    /\ Len(calls) = 3
    /\ calls[1].name = "top_p" /\ calls[2].name = "top_k" /\ calls[3].name = "tools"
    /\ req.top_p = Some(calls[1].arg)
    /\ req.messages = required.messages /\ Len(req.messages) = 4

----------------------------------------------------------------------------
(* Inputs of the codec *)

Absent == [absent |-> TRUE]

\* the object of the members of f that are not Absent
MkObj(f) == JObj([k \in {k \in DOMAIN f : f[k] # Absent} |-> f[k]])

GoodSourceWire ==
    JObj([type |-> JStr("base64"), media_type |-> JStr("image/png"), data |-> JStr("AAAA")])

SourceWires ==
    {Absent, JStr("base64"), GoodSourceWire,
     JArr(<<JStr("base64"), JStr("image/png"), JStr("AAAA")>>),
     JArr(<<JStr("base64"), JStr("image/png")>>),
     JObj([type |-> JStr("base64"), media_type |-> JStr("image/png")]),
     JObj([type |-> JStr("base64"), media_type |-> JNum(5), data |-> JStr("AAAA")]),
     JObj([type |-> JStr("base64"), media_type |-> JStr("image/png"),
           data |-> JStr("AAAA"), detail |-> JStr("low")])}

TypeWires ==
    {Absent, JNum(0), JNum(5), JStr("bogus"), JStr("Text")} \cup {JStr(t) : t \in KnownTags}

BlockWires ==
    {MkObj([type |-> t, text |-> x]) :
        t \in TypeWires, x \in {Absent, JStr("hi"), JStr(""), JNum(5)}}
    \cup {MkObj([type |-> JStr(t), tool_use_id |-> a, content |-> b]) :
        t \in {"tool_result", "bogus"},
        a \in {Absent, JStr("abc"), JNum(5)}, b \in {Absent, JStr("ok"), JNull}}
    \cup {MkObj([type |-> JStr("tool_use"), id |-> a, name |-> b, input |-> c]) :
        a \in {Absent, JStr("tu1")}, b \in {Absent, JStr("calc"), JBool(TRUE)},
        c \in {Absent, JNull, JStr("x"), NestedJson}}
    \cup {MkObj([type |-> JStr("image"), source |-> a]) : a \in SourceWires}
    \cup {JArr(<<>>), JArr(<<JStr("text"), JStr("hi")>>), JArr(<<JStr("text")>>),
          JArr(<<JStr("text"), JStr("hi"), JStr("x")>>),
          JArr(<<JStr("tool_result"), JStr("abc"), JStr("ok")>>),
          JArr(<<JStr("bogus"), JStr("hi")>>),
          JArr(<<JNum(0), JStr("hi")>>),
          JStr("text"), JNum(42), JNull, JBool(FALSE)}

\* the elements drawn for wire arrays of blocks
BlockSample ==
    {JObj([type |-> JStr("text"), text |-> JStr("hi")]),
     JObj([type |-> JStr("image"), source |-> GoodSourceWire]),
     JObj([type |-> JStr("tool_use"), id |-> JStr("tu1"), name |-> JStr("calc"),
           input |-> NestedJson]),
     JObj([type |-> JStr("tool_result"), tool_use_id |-> JStr("abc"), content |-> JStr("ok")]),
     JObj([type |-> JStr("bogus")]),
     JObj([type |-> JStr("text")]),
     JObj([type |-> JNum(0), text |-> JStr("hi")]),
     JObj([type |-> JNum(4), text |-> JStr("hi")]),
     JObj([type |-> JNum(-1), text |-> JStr("hi")]),
     JArr(<<JNum(3), JStr("a"), JStr("b")>>),
     JArr(<<JStr("text"), JStr("hi")>>),
     JStr("hi")}

RECURSIVE SeqsUpTo(_, _)
SeqsUpTo(S, n) ==
    IF n = 0 THEN {<<>>}
    ELSE SeqsUpTo(S, n - 1)
         \cup {Append(q, x) : q \in {q \in SeqsUpTo(S, n - 1) : Len(q) = n - 1}, x \in S}

\* the values drawn for the member content
ContentValues ==
    {JStr("hello"), JStr(""), JNum(42), JNull, JBool(TRUE), EmptyObj,
     JObj([type |-> JStr("text"), text |-> JStr("hi")]),
     JObj([content |-> JStr("hello")])}
    \cup {JArr(q) : q \in SeqsUpTo(BlockSample, MaxBlocks)}

ContentWires ==
    {MkObj([content |-> c, note |-> x]) :
        c \in ContentValues \cup {Absent}, x \in {Absent, JStr("n")}}
    \cup {JStr("hello"), JNum(42), JNull,
          JArr(<<JObj([type |-> JStr("text"), text |-> JStr("hi")])>>),
          JArr(<<JStr("hello")>>)}

\* the wire arrays drawn for CreateMessageResponse.content
BlocksWires ==
    {JArr(q) : q \in SeqsUpTo(BlockSample, MaxBlocks)}
    \cup {JNull, JStr("hi"), JObj([type |-> JStr("text"), text |-> JStr("hi")])}

RoleWires ==
    {Absent, JStr("user"), JStr("assistant"), JStr("User"), JStr("system"), JNum(1),
     JNull, JObj([user |-> JNull]), JObj([user |-> JStr("x")]),
     JObj([bogus |-> JNull]), EmptyObj,
     JObj([assistant |-> JNull, user |-> JNull]),
     JObj([bogus |-> JNull, user |-> JNull])}

MessageWires ==
    {MkObj([role |-> r, content |-> c]) :
        r \in RoleWires,
        c \in {Absent, JStr("hello"), JStr(""), JNum(42), JNull, JArr(<<>>),
               JArr(<<JObj([type |-> JStr("text"), text |-> JStr("hi")])>>),
               JArr(<<JObj([type |-> JNum(0), text |-> JStr("hi")])>>),
               JArr(<<JArr(<<JNum(3), JStr("a"), JStr("b")>>)>>),
               JArr(<<JObj([type |-> JStr("bogus")])>>)}}
    \cup {JStr("hello"), JNull, JArr(<<JStr("user"), JStr("hello")>>)}

BlockValues ==
    {ContentBlock_text("hi"), ContentBlock_text(""),
     ContentBlock_image("base64", "image/png", "AAAA"),
     ContentBlock_ToolUse("tu1", "calc", NestedJson),
     ContentBlock_ToolUse("tu2", "", JNull),
     ContentBlock_ToolResult("tu1", "ok")}

Messages ==
    {Message_new_text(r, t) : r \in Roles, t \in {"", "hi", "[]"}}
    \cup {Message_new_blocks(r, q) :
            r \in Roles, q \in SeqsUpTo(BlockValues, MaxBlocks) \cup {AllFourBlocks}}

ErrorStrings == {"", "rate limited", "API request failed: timeout"}

CodecInputs ==
    {[cb |-> w] : w \in BlockWires}
    \cup {[bl |-> w] : w \in BlocksWires}
    \cup {[mc |-> w] : w \in ContentWires}
    \cup {[m |-> w] : w \in MessageWires}
    \cup {[val |-> m] : m \in Messages}
    \cup {[s |-> e] : e \in ErrorStrings}

----------------------------------------------------------------------------
(* The codec: an input is drawn, then encoded or decoded *)

BuilderIdle ==
    pc = "idle" /\ required = None /\ req = None /\ calls = <<>> /\ sent = None

CodecInit ==
    /\ BuilderIdle
    /\ op = "input"
    /\ inp \in CodecInputs
    /\ enc = None
    /\ out = None

DecodeContentBlock ==
    /\ op = "input" /\ DOMAIN inp = {"cb"}
    /\ op' = "de_ContentBlock"
    /\ out' = de_ContentBlock(inp.cb)
    /\ UNCHANGED <<inp, enc>>
    /\ UNCHANGED builderVars

\* the content of a response: a vector of blocks read straight from JSON
DecodeBlocks ==
    /\ op = "input" /\ DOMAIN inp = {"bl"}
    /\ op' = "de_Blocks"
    /\ out' = de_Blocks(inp.bl)
    /\ UNCHANGED <<inp, enc>>
    /\ UNCHANGED builderVars

DecodeMessageContent ==
    /\ op = "input" /\ DOMAIN inp = {"mc"}
    /\ op' = "de_MessageContent"
    /\ out' = de_MessageContent(inp.mc)
    /\ UNCHANGED <<inp, enc>>
    /\ UNCHANGED builderVars

DecodeMessage ==
    /\ op = "input" /\ DOMAIN inp = {"m"}
    /\ op' = "de_Message"
    /\ out' = de_Message(inp.m)
    /\ UNCHANGED <<inp, enc>>
    /\ UNCHANGED builderVars

EncodeMessage ==
    /\ op = "input" /\ DOMAIN inp = {"val"}
    /\ op' = "ser_Message"
    /\ enc' = Some(ser_Message(inp.val))
    /\ UNCHANGED <<inp, out>>
    /\ UNCHANGED builderVars

\* the encoding of a message is decoded back
DecodeEncoded ==
    /\ op = "ser_Message"
    /\ op' = "roundtrip"
    /\ out' = de_Message(enc.some)
    /\ UNCHANGED <<inp, enc>>
    /\ UNCHANGED builderVars

\* a bare string error of a lower layer becomes a MessageError
CoerceString ==
    /\ op = "input" /\ DOMAIN inp = {"s"}
    /\ op' = "from_string"
    /\ out' = Err(From_String(inp.s))
    /\ UNCHANGED <<inp, enc>>
    /\ UNCHANGED builderVars

CodecNext ==
    \/ DecodeContentBlock
    \/ DecodeBlocks
    \/ DecodeMessageContent
    \/ DecodeMessage
    \/ EncodeMessage
    \/ DecodeEncoded
    \/ CoerceString

CodecSpec == CodecInit /\ [][CodecNext]_vars

----------------------------------------------------------------------------
(* Properties of the codec *)

\* decoding failed, with the deserializer's error
IsDecodeError(r) == IsErr(r) /\ DOMAIN r.Err = {"de_Error"}
StrAt(w, k) == k \in Keys(w) /\ IsStr(w.obj[k])

\* C2: a message that is encoded and then decoded is the message again, for both
\* roles, Text (also "") and Blocks (also empty, and mixing the four variants);
\* empty Blocks encodes to [] and Text "" to "", and neither decodes as the other.
C2_RoundTrip ==
    op = "roundtrip" =>
        /\ out = Ok(inp.val)
        /\ (enc.some.obj.content = JArr(<<>>))
                <=> (inp.val.content = MessageContent_Blocks(<<>>))
        /\ (enc.some.obj.content = JStr(""))
                <=> (inp.val.content = MessageContent_Text(""))

C2_Witness ==
    /\ op = "roundtrip"
    /\ inp.val = Message_new_blocks("Assistant", AllFourBlocks)
    /\ out = Ok(Message_new_blocks("Assistant", AllFourBlocks))

C2_WitnessEmpty ==
    /\ op = "roundtrip"
    /\ inp.val = Message_new_blocks("User", <<>>)
    /\ out.Ok.content = MessageContent_Blocks(<<>>)
    /\ out.Ok.content # MessageContent_Text("")

\* the elements of a content array, read as message content reads them
AllDecode(a) == \A i \in 1..Len(a) : IsOk(de_ContentBlock_Buffered(a[i]))
DecodedBlocks(a) == [i \in 1..Len(a) |-> de_ContentBlock_Buffered(a[i]).Ok]

\* C3 as stated: the wire value handed to the content decoder is itself the
\* string, the array or the other JSON value.
C3_BareValueDisambiguation ==
    op = "de_MessageContent" =>
        LET w == inp.mc
        IN  /\ IsStr(w) => out = Ok(MessageContent_Text(w.str))
            /\ (IsArr(w) /\ AllDecode(w.arr))
                    => out = Ok(MessageContent_Blocks(DecodedBlocks(w.arr)))
            /\ (~IsStr(w) /\ ~IsArr(w)) => IsDecodeError(out)

\* what the decoder must give for the wire object w holding the member content
ContentMemberRule(w, r) ==
    /\ StrAt(w, "content") => r = Ok(MessageContent_Text(w.obj.content.str))
    /\ ("content" \in Keys(w) /\ IsArr(w.obj.content) /\ AllDecode(w.obj.content.arr))
            => r = Ok(MessageContent_Blocks(DecodedBlocks(w.obj.content.arr)))
    /\ ("content" \in Keys(w) /\ IsArr(w.obj.content) /\ ~AllDecode(w.obj.content.arr))
            => IsDecodeError(r)
    /\ ("content" \in Keys(w) /\ ~IsStr(w.obj.content) /\ ~IsArr(w.obj.content))
            => IsDecodeError(r)
    /\ "content" \notin Keys(w) => IsDecodeError(r)

\* C3 amended: message content is decoded from the wire object that holds the
\* member content (the message object).  A content member that is a JSON string
\* s gives Text{content: s}; one that is an array whose elements all decode as
\* ContentBlock (as message content reads its elements) gives Blocks of those
\* blocks in order; a content member of any other JSON type, an array with an
\* element that does not decode, a missing content member, and a wire value
\* that is not an object (a bare string or array included) fail with a decode
\* error and give neither Text nor Blocks.
C3_ContentMemberDisambiguation ==
    /\ op = "de_MessageContent" =>
        IF IsObj(inp.mc) THEN ContentMemberRule(inp.mc, out) ELSE IsDecodeError(out)
    /\ (op = "de_Message" /\ IsObj(inp.m) /\ "role" \in Keys(inp.m)
            /\ IsOk(de_Role(inp.m.obj.role))) =>
        ContentMemberRule(inp.m,
            IF IsOk(out) THEN Ok(out.Ok.content) ELSE out)

C3_Witness ==
    /\ op = "de_MessageContent"
    /\ inp.mc = JObj([content |->
            JArr(<<JObj([type |-> JStr("text"), text |-> JStr("hi")])>>)])
    /\ out = Ok(MessageContent_Blocks(<<ContentBlock_Text("hi")>>))

\* the required members of the variant of a tag
RequiredMembers(tag) ==
    CASE tag = "text" -> {"text"}
      [] tag = "image" -> {"source"}
      [] tag = "tool_use" -> {"id", "name", "input"}
      [] tag = "tool_result" -> {"tool_use_id", "content"}

\* the member k of the block object w has the JSON type its field takes
MemberTyped(w, k) ==
    CASE k = "input" -> TRUE
      [] k = "source" -> IsObj(w.obj[k]) \/ IsArr(w.obj[k])
      [] OTHER -> IsStr(w.obj[k])

SourceOk(v) ==
    IsObj(v) /\ StrAt(v, "type") /\ StrAt(v, "media_type") /\ StrAt(v, "data")

\* the block object v carries a type that is none of the four tag strings
TypeOutsideFour(v) ==
    IsObj(v) /\ "type" \in Keys(v) /\ ~(StrAt(v, "type") /\ v.obj.type.str \in KnownTags)

\* Tag dispatch of a block read straight from JSON: an object whose type is one
\* of the four tags and that carries the variant's required fields decodes to
\* that variant with those values; a type string outside the four fails with a
\* decode error naming it; a recognized type with a required field missing (and
\* none mistyped) fails with a decode error naming a missing field; with a
\* required field mistyped it fails with a decode error.
TagDispatchDirect ==
    (op = "de_ContentBlock" /\ IsObj(inp.cb) /\ StrAt(inp.cb, "type")) =>
        LET w == inp.cb
            tag == w.obj.type.str
            missing == {k \in RequiredMembers(tag) : k \notin Keys(w)}
            mistyped == {k \in RequiredMembers(tag) : k \in Keys(w) /\ ~MemberTyped(w, k)}
        IN  /\ (tag = "text" /\ StrAt(w, "text"))
                => out = Ok([Text |-> [text |-> w.obj.text.str]])
            /\ (tag = "tool_result" /\ StrAt(w, "tool_use_id") /\ StrAt(w, "content"))
                => out = Ok([ToolResult |-> [tool_use_id |-> w.obj.tool_use_id.str,
                                             content |-> w.obj.content.str]])
            /\ (tag = "tool_use" /\ StrAt(w, "id") /\ StrAt(w, "name")
                    /\ "input" \in Keys(w))
                => out = Ok([ToolUse |-> [id |-> w.obj.id.str, name |-> w.obj.name.str,
                                          input |-> w.obj.input]])
            /\ (tag = "image" /\ "source" \in Keys(w) /\ SourceOk(w.obj.source))
                => out = Ok([Image |-> [source |->
                        [type_ |-> w.obj.source.obj.type.str,
                         media_type |-> w.obj.source.obj.media_type.str,
                         data |-> w.obj.source.obj.data.str]]])
            /\ tag \notin {"text", "image", "tool_use", "tool_result"}
                => /\ IsDecodeError(out)
                   /\ out.Err.de_Error.name = tag
            /\ (tag \in {"text", "image", "tool_use", "tool_result"}
                    /\ missing # {} /\ mistyped = {})
                => /\ IsDecodeError(out)
                   /\ out.Err.de_Error.msg = "missing field"
                   /\ out.Err.de_Error.name \in missing
            /\ (tag \in {"text", "image", "tool_use", "tool_result"} /\ mistyped # {})
                => IsDecodeError(out)

\* a type outside the four tag strings fails, wherever the block is read:
\* on its own, as an element of a response's content, as an element of a
\* message's content
TypeOutsideFourFailsDirect ==
    /\ (op = "de_ContentBlock" /\ TypeOutsideFour(inp.cb)) => IsDecodeError(out)
    /\ (op = "de_Blocks" /\ IsArr(inp.bl)
            /\ \E i \in 1..Len(inp.bl.arr) : TypeOutsideFour(inp.bl.arr[i]))
        => IsDecodeError(out)

TypeOutsideFourFailsInContent ==
    /\ (op = "de_MessageContent" /\ IsObj(inp.mc) /\ "content" \in Keys(inp.mc)
            /\ IsArr(inp.mc.obj.content)
            /\ \E i \in 1..Len(inp.mc.obj.content.arr) :
                    TypeOutsideFour(inp.mc.obj.content.arr[i]))
        => IsDecodeError(out)
    /\ (op = "de_Message" /\ IsObj(inp.m) /\ "content" \in Keys(inp.m)
            /\ IsArr(inp.m.obj.content)
            /\ \E i \in 1..Len(inp.m.obj.content.arr) :
                    TypeOutsideFour(inp.m.obj.content.arr[i]))
        => IsDecodeError(out)

\* C4: decoding a ContentBlock dispatches on the tag: an object whose type is
\* "text", "image", "tool_use" or "tool_result" and that carries the variant's
\* required fields decodes to that variant with those field values; a type
\* outside those four strings, or a recognized type with a missing or mistyped
\* required field, fails with a decode error (naming the unrecognized tag or
\* the missing field).
C4_TagDispatch ==
    /\ TagDispatchDirect
    /\ TypeOutsideFourFailsDirect
    /\ TypeOutsideFourFailsInContent

\* the block {"type": 0, "text": "hi"} inside a message's content is taken as
\* the variant of index 0
C4_Witness ==
    /\ op = "de_Message"
    /\ inp.m = JObj([role |-> JStr("user"),
                     content |-> JArr(<<JObj([type |-> JNum(0), text |-> JStr("hi")])>>)])
    /\ out = Ok(Message_new_blocks("User", <<ContentBlock_Text("hi")>>))

\* read straight from JSON the four tags dispatch and "bogus" is named
C4_WitnessDirect ==
    /\ op = "de_ContentBlock"
    /\ inp.cb = JObj([type |-> JStr("tool_result"), tool_use_id |-> JStr("abc"),
                      content |-> JStr("ok")])
    /\ out = Ok(ContentBlock_ToolResult("abc", "ok"))

C4_WitnessBogus ==
    /\ op = "de_ContentBlock"
    /\ inp.cb = JObj([type |-> JStr("bogus")])
    /\ out = Err(UnknownVariant("bogus"))

\* the same block read straight from JSON fails
C4_WitnessDirectIndex ==
    /\ op = "de_Blocks"
    /\ inp.bl = JArr(<<JObj([type |-> JNum(0), text |-> JStr("hi")])>>)
    /\ out = Err(InvalidType)

\* the block v carries a tag that is none of the four tag strings (in the
\* member type of an object, or as the first element of an array)
UnrecognizedTag(v) ==
    \/ TypeOutsideFour(v)
    \/ IsArr(v) /\ Len(v.arr) > 0 /\ ~(IsStr(v.arr[1]) /\ v.arr[1].str \in KnownTags)

\* the block object v carries one of the four tags and lacks a required field
MissingRequired(v) ==
    /\ IsObj(v) /\ StrAt(v, "type") /\ v.obj.type.str \in KnownTags
    /\ ~(RequiredMembers(v.obj.type.str) \subseteq Keys(v))

Malformed(v) == UnrecognizedTag(v) \/ MissingRequired(v)

\* the member content of the wire object w is of a JSON type that is neither
\* string nor array, or is an array holding a malformed block
MalformedContent(w) ==
    /\ "content" \in Keys(w)
    /\ IF IsArr(w.obj.content)
       THEN \E i \in 1..Len(w.obj.content.arr) : Malformed(w.obj.content.arr[i])
       ELSE ~IsStr(w.obj.content)

\* malformed input read straight from JSON fails
MalformedFailsDirect ==
    /\ (op = "de_ContentBlock" /\ Malformed(inp.cb)) => IsErr(out)
    /\ (op = "de_Blocks" /\ IsArr(inp.bl)
            /\ \E i \in 1..Len(inp.bl.arr) : Malformed(inp.bl.arr[i]))
        => IsErr(out)

\* malformed input read as message content fails
MalformedFailsInContent ==
    /\ (op = "de_MessageContent" /\ IsObj(inp.mc) /\ MalformedContent(inp.mc))
        => IsErr(out)
    /\ (op = "de_Message" /\ IsObj(inp.m)
            /\ ("role" \notin Keys(inp.m) \/ "content" \notin Keys(inp.m)
                    \/ MalformedContent(inp.m)))
        => IsErr(out)

\* a failed decode is never a RequestFailed nor an ApiError
FailureIsNoMessageError ==
    (op \in {"de_ContentBlock", "de_Blocks", "de_MessageContent", "de_Message",
             "roundtrip"}
        /\ IsErr(out))
    => DOMAIN out.Err \cap MessageErrorKinds = {}

\* a bare string coerces into ApiError, never RequestFailed
StringIsApiError ==
    op = "from_string"
        => /\ out = Err([ApiError |-> inp.s])
           /\ DOMAIN out.Err = {"ApiError"}

\* C8: malformed input to the content model (unrecognized tag, content of a
\* JSON type that is neither string nor array, missing required field) is a
\* decode failure: it is reported as an error, which is neither RequestFailed
\* nor ApiError, and is never turned into a variant silently; a bare string
\* coerces into ApiError, never RequestFailed.
C8_ErrorKinds ==
    /\ MalformedFailsDirect
    /\ MalformedFailsInContent
    /\ FailureIsNoMessageError
    /\ StringIsApiError

\* the block [3, "a", "b"] inside message content, whose tag is no tag string,
\* is turned into the variant of index 3
C8_Witness ==
    /\ op = "de_MessageContent"
    /\ inp.mc = JObj([content |-> JArr(<<JArr(<<JNum(3), JStr("a"), JStr("b")>>)>>)])
    /\ out = Ok(MessageContent_Blocks(<<ContentBlock_ToolResult("a", "b")>>))

C8_WitnessString ==
    /\ op = "from_string" /\ inp.s = "rate limited"
    /\ out = Err([ApiError |-> "rate limited"])

====
